---- MODULE Spec2Model ----
(***************************************************************************)
(* A model of snowflakepro-go: the 16-byte SFID codec (id.go) and the      *)
(* SnowflakePro sequence generator.                                        *)
(*                                                                         *)
(* Representation.  A Go byte is a number in 0..255.  A Go unsigned        *)
(* integer of w bytes (uint16, uint32, uint64) is a tuple of w bytes, most *)
(* significant byte first, so that the 40- and 48-bit limits of the        *)
(* source are kept at their real width.  An SFID is a tuple of 16 bytes;   *)
(* the source's id[i] is At(id, i).  A text is a tuple of byte codes.      *)
(*                                                                         *)
(* Environment.  The wall clock of the generator ranges over the           *)
(* millisecond readings 0..MaxClock (and up to the generator's own         *)
(* timestamp, so that a catch-up wait can end); README.md documents the    *)
(* 48-bit range of the timestamp as the design limit of the generator.     *)
(***************************************************************************)
EXTENDS Integers, Sequences, FiniteSets, TLC

----------------------------------------------------------------------------
(* Bounds of the model. *)

\* Largest free-running wall-clock reading (milliseconds).
MaxClock == 1

\* Number of Next calls that may be started on the generator.
MaxCalls == 3

\* Width in bits of the sequence counter in the model (24 in the source).
SNBits == 1

\* Number of setter calls made on one identifier.
MaxSets == 3

----------------------------------------------------------------------------
(* Go's operators on bytes. *)

RECURSIVE Pow2(_)
Pow2(k) == IF k = 0 THEN 1 ELSE 2 * Pow2(k - 1)

RECURSIVE BitAnd(_, _)
BitAnd(a, b) ==
    IF a = 0 \/ b = 0 THEN 0
    ELSE (a % 2) * (b % 2) + 2 * BitAnd(a \div 2, b \div 2)

RECURSIVE BitOr(_, _)
BitOr(a, b) ==
    IF a = 0 THEN b
    ELSE IF b = 0 THEN a
    ELSE (IF a % 2 = 1 \/ b % 2 = 1 THEN 1 ELSE 0) + 2 * BitOr(a \div 2, b \div 2)

\* b << k on a byte: the bits shifted out of the byte are lost.
Shl(b, k) == (b * Pow2(k)) % 256

\* b >> k on a byte.
Shr(b, k) == b \div Pow2(k)

----------------------------------------------------------------------------
(* Go's unsigned integers, as big-endian byte tuples. *)

\* A function on 1..w as the tuple of its w values.
Tup(f, w) == SubSeq(f, 1, w)

\* The one element of a singleton set.  The word operators below bind each
\* operand to its value with x \in {a}, so that an operand is evaluated once
\* however often the operator reads it.
Once(S) == CHOOSE r \in S : TRUE

\* The w-byte unsigned integer of a natural number below 2^31.
Word(n, w) ==
    Tup([i \in 1..w |-> IF w - i >= 4 THEN 0
                                     ELSE (n \div Pow2(8 * (w - i))) % 256], w)

U16(n) == Word(n, 2)
U32(n) == Word(n, 4)
U64(n) == Word(n, 8)

\* The natural number of a word (used for words known to be small).
RECURSIVE ToNat(_)
ToNat(a) == IF Len(a) = 0 THEN 0
            ELSE 256 * ToNat(SubSeq(a, 1, Len(a) - 1)) + a[Len(a)]

\* The low w bytes of a word, or the word zero-extended to w bytes
\* (Go's conversions uint16(x), uint32(x), uint64(x), int64(x)).
Conv(a, w) ==
    Once({ Tup([i \in 1..w |-> IF i + Len(x) - w >= 1 THEN x[i + Len(x) - w]
                                                      ELSE 0], w) : x \in {a} })

\* bytes.Compare on two byte strings: -1, 0 or +1.
CmpBytes(a, b) ==
    Once({ LET n == IF Len(x) < Len(y) THEN Len(x) ELSE Len(y)
               d == {i \in 1..n : x[i] # y[i]}
           IN  IF d = {}
               THEN (IF Len(x) < Len(y) THEN -1
                     ELSE IF Len(x) > Len(y) THEN 1 ELSE 0)
               ELSE LET k == CHOOSE i \in d : \A j \in d : i <= j
                    IN  IF x[k] < y[k] THEN -1 ELSE 1
           : x \in {a}, y \in {b} })

\* a >= b in the place of a > b.
GtOrEq(a, b) == CmpBytes(a, b) >= 0

\* a > b and a <= b on unsigned integers of the same width.
Gt(a, b) == CmpBytes(a, b) = 1
Le(a, b) == CmpBytes(a, b) <= 0

\* a + 1, wrapping at the width of a.
Inc(a) ==
    Once({ Tup([i \in 1..Len(x) |->
                   IF \A j \in (i + 1)..Len(x) : x[j] = 255
                   THEN (x[i] + 1) % 256 ELSE x[i]], Len(x)) : x \in {a} })

\* a & b on unsigned integers of the same width.
AndW(a, b) ==
    Once({ Tup([i \in 1..Len(x) |-> BitAnd(x[i], y[i])], Len(x))
           : x \in {a}, y \in {b} })

\* a | b on unsigned integers of the same width.
OrW(a, b) ==
    Once({ Tup([i \in 1..Len(x) |-> BitOr(x[i], y[i])], Len(x))
           : x \in {a}, y \in {b} })

\* a << k for k a multiple of 8: whole bytes move up, zeros come in.
ShlW(a, k) ==
    Once({ Tup([i \in 1..Len(x) |-> IF i + k \div 8 <= Len(x)
                                    THEN x[i + k \div 8] ELSE 0], Len(x))
           : x \in {a} })

\* byte(a >> k) for k a multiple of 8.
ByteOf(a, k) == a[Len(a) - k \div 8]

\* a - b on two's complement integers of the same width, wrapping.
SubW(a, b) ==
    Once({ Tup([i \in 1..Len(x) |->
                   LET borrow == IF CmpBytes(SubSeq(x, i + 1, Len(x)),
                                             SubSeq(y, i + 1, Len(y))) = -1
                                 THEN 1 ELSE 0
                   IN  (x[i] - y[i] - borrow + 512) % 256], Len(x))
           : x \in {a}, y \in {b} })

\* x > 0 for a two's complement integer x.
Positive(x) == \E v \in {x} : v[1] < 128 /\ \E i \in 1..Len(v) : v[i] # 0

----------------------------------------------------------------------------
(* id.go: the identifier, its field getters and setters, its ordering. *)

\* id[i] of the source (Go indexes from 0).
At(id, i) == id[i + 1]

\* The byte as a w-byte unsigned integer: uint16(b), uint32(b), uint64(b).
FromByte(b, w) == Conv(<<b>>, w)

\* var sfid SFID: the zero identifier.
ZeroSFID == [i \in 1..16 |-> 0]

\* func (id SFID) Time() uint64
Time(id) ==
    OrW(FromByte(At(id, 5), 8),
    OrW(ShlW(FromByte(At(id, 4), 8), 8),
    OrW(ShlW(FromByte(At(id, 3), 8), 16),
    OrW(ShlW(FromByte(At(id, 2), 8), 24),
    OrW(ShlW(FromByte(At(id, 1), 8), 32),
        ShlW(FromByte(At(id, 0), 8), 40))))))

\* func (id SFID) Node() uint16
Node(id) == OrW(ShlW(FromByte(At(id, 6), 2), 8), FromByte(At(id, 7), 2))

\* func (id SFID) Nonce() uint64
Nonce(id) ==
    OrW(ShlW(FromByte(At(id, 8), 8), 32),
    OrW(ShlW(FromByte(At(id, 9), 8), 24),
    OrW(ShlW(FromByte(At(id, 10), 8), 16),
    OrW(ShlW(FromByte(At(id, 11), 8), 8),
        FromByte(At(id, 12), 8)))))

\* func (id SFID) SN() uint32
SN(id) ==
    OrW(ShlW(FromByte(At(id, 13), 4), 16),
    OrW(ShlW(FromByte(At(id, 14), 4), 8),
        FromByte(At(id, 15), 4)))

\* var maxTime = SFID{0xFF, 0xFF, 0xFF, 0xFF, 0xFF, 0xFF}.Time()
maxTime == Time([i \in 1..16 |-> IF i <= 6 THEN 255 ELSE 0])

\* const MaxNonce = 0xFFFFFFFFFF
MaxNonce == <<0, 0, 0, 255, 255, 255, 255, 255>>

\* const maxSN = (uint32(1) << 24) - 1
maxSN == U32(Pow2(24) - 1)

\* func (id *SFID) SetTime(ms uint64) error
SetTime(id, ms) ==
    IF Gt(ms, maxTime) THEN [id |-> id, err |-> "ErrBigTime"]
    ELSE [id |-> [id EXCEPT ![1] = ByteOf(ms, 40), ![2] = ByteOf(ms, 32),
                            ![3] = ByteOf(ms, 24), ![4] = ByteOf(ms, 16),
                            ![5] = ByteOf(ms, 8),  ![6] = ByteOf(ms, 0)],
          err |-> "nil"]

\* SetNode writing one byte too early.
SetNodeEarly(id, node) ==
    [id EXCEPT ![6] = ByteOf(node, 8), ![7] = ByteOf(node, 0)]

\* func (id *SFID) SetNode(node uint16)
SetNode(id, node) ==
    [id EXCEPT ![7] = ByteOf(node, 8), ![8] = ByteOf(node, 0)]

\* SetNonce writing the low four bytes only.
SetNonce32(id, nonce) ==
    IF Gt(nonce, MaxNonce) THEN [id |-> id, err |-> "ErrBigNonce"]
    ELSE [id |-> [id EXCEPT ![10] = ByteOf(nonce, 24), ![11] = ByteOf(nonce, 16),
                            ![12] = ByteOf(nonce, 8),  ![13] = ByteOf(nonce, 0)],
          err |-> "nil"]

\* func (id *SFID) SetNonce(nonce uint64) error
SetNonce(id, nonce) ==
    IF Gt(nonce, MaxNonce) THEN [id |-> id, err |-> "ErrBigNonce"]
    ELSE [id |-> [id EXCEPT ![9]  = ByteOf(nonce, 32), ![10] = ByteOf(nonce, 24),
                            ![11] = ByteOf(nonce, 16), ![12] = ByteOf(nonce, 8),
                            ![13] = ByteOf(nonce, 0)],
          err |-> "nil"]

\* SetSN with the last two shifts exchanged.
SetSNSwapped(id, sn) ==
    IF Gt(sn, maxSN) THEN [id |-> id, err |-> "ErrBigSN"]
    ELSE [id |-> [id EXCEPT ![14] = ByteOf(sn, 16), ![15] = ByteOf(sn, 0),
                            ![16] = ByteOf(sn, 8)],
          err |-> "nil"]

\* func (id *SFID) SetSN(sn uint32) error
SetSN(id, sn) ==
    IF Gt(sn, maxSN) THEN [id |-> id, err |-> "ErrBigSN"]
    ELSE [id |-> [id EXCEPT ![14] = ByteOf(sn, 16), ![15] = ByteOf(sn, 8),
                            ![16] = ByteOf(sn, 0)],
          err |-> "nil"]

\* Compare with its operands exchanged.
CompareRev(id, other) == CmpBytes(other, id)

\* func (id SFID) Compare(other SFID) int
Compare(id, other) == CmpBytes(id, other)

----------------------------------------------------------------------------
(* id.go: the text form, 26 characters of a base 32 alphabet. *)

\* const EncodedSize = 26
EncodedSize == 26

\* const Encoding = "0123456789ABCDEFGHJKMNPQRSTVWXYZ", as byte codes.
Encoding ==
    <<48, 49, 50, 51, 52, 53, 54, 55, 56, 57,
      65, 66, 67, 68, 69, 70, 71, 72, 74, 75, 77, 78,
      80, 81, 82, 83, 84, 86, 87, 88, 89, 90>>

\* The alphabet read one symbol further on.
ERot(x) == Encoding[((x + 1) % 32) + 1]

\* Encoding[x]
E(x) == Encoding[x + 1]

\* var dec = [...]byte{...}: byte code to symbol value, 0xFF for none.
dec ==
 <<
    255, 255, 255, 255, 255, 255, 255, 255, 255, 255, 255, 255, 255, 255, 255, 255,
    255, 255, 255, 255, 255, 255, 255, 255, 255, 255, 255, 255, 255, 255, 255, 255,
    255, 255, 255, 255, 255, 255, 255, 255, 255, 255, 255, 255, 255, 255, 255, 255,
      0,   1,   2,   3,   4,   5,   6,   7,   8,   9, 255, 255, 255, 255, 255, 255,
    255,  10,  11,  12,  13,  14,  15,  16,  17, 255,  18,  19, 255,  20,  21, 255,
     22,  23,  24,  25,  26, 255,  27,  28,  29,  30,  31, 255, 255, 255, 255, 255,
    255,  10,  11,  12,  13,  14,  15,  16,  17, 255,  18,  19, 255,  20,  21, 255,
     22,  23,  24,  25,  26, 255,  27,  28,  29,  30,  31, 255, 255, 255, 255, 255,
    255, 255, 255, 255, 255, 255, 255, 255, 255, 255, 255, 255, 255, 255, 255, 255,
    255, 255, 255, 255, 255, 255, 255, 255, 255, 255, 255, 255, 255, 255, 255, 255,
    255, 255, 255, 255, 255, 255, 255, 255, 255, 255, 255, 255, 255, 255, 255, 255,
    255, 255, 255, 255, 255, 255, 255, 255, 255, 255, 255, 255, 255, 255, 255, 255,
    255, 255, 255, 255, 255, 255, 255, 255, 255, 255, 255, 255, 255, 255, 255, 255,
    255, 255, 255, 255, 255, 255, 255, 255, 255, 255, 255, 255, 255, 255, 255, 255,
    255, 255, 255, 255, 255, 255, 255, 255, 255, 255, 255, 255, 255, 255, 255, 255,
    255, 255, 255, 255, 255, 255, 255, 255, 255, 255, 255, 255, 255, 255, 255, 255
 >>

\* dec[v[i]]
D(v, i) == dec[v[i + 1] + 1]

\* func (id SFID) MarshalTextTo(dst []byte) error
MarshalTextTo(id, dst) ==
    IF Len(dst) # EncodedSize THEN [dst |-> dst, err |-> "ErrBufferSize"]
    ELSE [dst |-> <<
        E(Shr(BitAnd(At(id, 0), 224), 5)),
        E(BitAnd(At(id, 0), 31)),
        E(Shr(BitAnd(At(id, 1), 248), 3)),
        E(BitOr(Shl(BitAnd(At(id, 1), 7), 2), Shr(BitAnd(At(id, 2), 192), 6))),
        E(Shr(BitAnd(At(id, 2), 62), 1)),
        E(BitOr(Shl(BitAnd(At(id, 2), 1), 4), Shr(BitAnd(At(id, 3), 240), 4))),
        E(BitOr(Shl(BitAnd(At(id, 3), 15), 1), Shr(BitAnd(At(id, 4), 128), 7))),
        E(Shr(BitAnd(At(id, 4), 124), 2)),
        E(BitOr(Shl(BitAnd(At(id, 4), 3), 3), Shr(BitAnd(At(id, 5), 224), 5))),
        E(BitAnd(At(id, 5), 31)),
        E(Shr(BitAnd(At(id, 6), 248), 3)),
        E(BitOr(Shl(BitAnd(At(id, 6), 7), 2), Shr(BitAnd(At(id, 7), 192), 6))),
        E(Shr(BitAnd(At(id, 7), 62), 1)),
        E(BitOr(Shl(BitAnd(At(id, 7), 1), 4), Shr(BitAnd(At(id, 8), 240), 4))),
        E(BitOr(Shl(BitAnd(At(id, 8), 15), 1), Shr(BitAnd(At(id, 9), 128), 7))),
        E(Shr(BitAnd(At(id, 9), 124), 2)),
        E(BitOr(Shl(BitAnd(At(id, 9), 3), 3), Shr(BitAnd(At(id, 10), 224), 5))),
        E(BitAnd(At(id, 10), 31)),
        E(Shr(BitAnd(At(id, 11), 248), 3)),
        E(BitOr(Shl(BitAnd(At(id, 11), 7), 2), Shr(BitAnd(At(id, 12), 192), 6))),
        E(Shr(BitAnd(At(id, 12), 62), 1)),
        E(BitOr(Shl(BitAnd(At(id, 12), 1), 4), Shr(BitAnd(At(id, 13), 240), 4))),
        E(BitOr(Shl(BitAnd(At(id, 13), 15), 1), Shr(BitAnd(At(id, 14), 128), 7))),
        E(Shr(BitAnd(At(id, 14), 124), 2)),
        E(BitOr(Shl(BitAnd(At(id, 14), 3), 3), Shr(BitAnd(At(id, 15), 224), 5))),
        E(BitAnd(At(id, 15), 31))
          >>,
          err |-> "nil"]

\* make([]byte, n)
MakeBytes(n) == [i \in 1..n |-> 0]

\* func (id SFID) String() string
String(id) == MarshalTextTo(id, MakeBytes(EncodedSize)).dst

\* func (id SFID) MarshalText() ([]byte, error)
MarshalText(id) ==
    LET r == MarshalTextTo(id, MakeBytes(EncodedSize))
    IN  [text |-> r.dst, err |-> r.err]

\* The strict check looking at the first character only.
HasInvalidCharacterFirst(v) == D(v, 0) = 255

\* The strict check of parse: some character has no symbol value.
HasInvalidCharacter(v) ==
     D(v, 0) = 255 \/
     D(v, 1) = 255 \/
     D(v, 2) = 255 \/
     D(v, 3) = 255 \/
     D(v, 4) = 255 \/
     D(v, 5) = 255 \/
     D(v, 6) = 255 \/
     D(v, 7) = 255 \/
     D(v, 8) = 255 \/
     D(v, 9) = 255 \/
     D(v, 10) = 255 \/
     D(v, 11) = 255 \/
     D(v, 12) = 255 \/
     D(v, 13) = 255 \/
     D(v, 14) = 255 \/
     D(v, 15) = 255 \/
     D(v, 16) = 255 \/
     D(v, 17) = 255 \/
     D(v, 18) = 255 \/
     D(v, 19) = 255 \/
     D(v, 20) = 255 \/
     D(v, 21) = 255 \/
     D(v, 22) = 255 \/
     D(v, 23) = 255 \/
     D(v, 24) = 255 \/
     D(v, 25) = 255

\* parse without the overflow check of lines 122-124.
parseNoOverflow(v, strict, id) ==
    IF Len(v) # EncodedSize THEN [id |-> id, err |-> "ErrDataSize"]
    ELSE IF strict /\ HasInvalidCharacter(v)
         THEN [id |-> id, err |-> "ErrInvalidCharacters"]
    ELSE [id |-> ZeroSFID, err |-> "nil"]

\* func parse(v []byte, strict bool, id *SFID) error
parse(v, strict, id) ==
    IF Len(v) # EncodedSize THEN [id |-> id, err |-> "ErrDataSize"]
    ELSE IF strict /\ HasInvalidCharacter(v)
         THEN [id |-> id, err |-> "ErrInvalidCharacters"]
    ELSE IF v[1] > 55 THEN [id |-> id, err |-> "ErrOverflow"]
    ELSE [id |-> <<
        BitOr(Shl(D(v, 0), 5), D(v, 1)),
        BitOr(Shl(D(v, 2), 3), Shr(D(v, 3), 2)),
        BitOr(BitOr(Shl(D(v, 3), 6), Shl(D(v, 4), 1)), Shr(D(v, 5), 4)),
        BitOr(Shl(D(v, 5), 4), Shr(D(v, 6), 1)),
        BitOr(BitOr(Shl(D(v, 6), 7), Shl(D(v, 7), 2)), Shr(D(v, 8), 3)),
        BitOr(Shl(D(v, 8), 5), D(v, 9)),
        BitOr(Shl(D(v, 10), 3), Shr(D(v, 11), 2)),
        BitOr(BitOr(Shl(D(v, 11), 6), Shl(D(v, 12), 1)), Shr(D(v, 13), 4)),
        BitOr(Shl(D(v, 13), 4), Shr(D(v, 14), 1)),
        BitOr(BitOr(Shl(D(v, 14), 7), Shl(D(v, 15), 2)), Shr(D(v, 16), 3)),
        BitOr(Shl(D(v, 16), 5), D(v, 17)),
        BitOr(Shl(D(v, 18), 3), Shr(D(v, 19), 2)),
        BitOr(BitOr(Shl(D(v, 19), 6), Shl(D(v, 20), 1)), Shr(D(v, 21), 4)),
        BitOr(Shl(D(v, 21), 4), Shr(D(v, 22), 1)),
        BitOr(BitOr(Shl(D(v, 22), 7), Shl(D(v, 23), 2)), Shr(D(v, 24), 3)),
        BitOr(Shl(D(v, 24), 5), D(v, 25))
          >>,
          err |-> "nil"]

\* func Parse(SFID string) (id SFID, err error)
\* "return id, parse(...)": parse fills the named result id through its
\* address before the function returns, so the caller gets the parsed id.
Parse(text) == parse(text, FALSE, ZeroSFID)

\* func ParseStrict(SFID string) (id SFID, err error)
ParseStrict(text) == parse(text, TRUE, ZeroSFID)

\* func (id *SFID) UnmarshalText(v []byte) error
UnmarshalText(id, v) == parse(v, FALSE, id)

\* The copy of line 212 made before the test of line 208.
UnmarshalBinaryCopiesFirst(id, data) ==
    [id |-> [i \in 1..16 |-> IF i <= Len(data) THEN data[i] ELSE id[i]],
     err |-> IF Len(data) # 16 THEN "ErrDataSize" ELSE "nil"]

\* func (id *SFID) UnmarshalBinary(data []byte) error
UnmarshalBinary(id, data) ==
    IF Len(data) # 16 THEN [id |-> id, err |-> "ErrDataSize"]
    ELSE [id |-> [i \in 1..16 |-> data[i]], err |-> "nil"]

\* Scan reading a byte slice as text.
ScanBytesAsText(id, src) ==
    IF src.kind = "nil" THEN [id |-> id, err |-> "nil"]
    ELSE IF src.kind \in {"string", "bytes"} THEN UnmarshalText(id, src.val)
    ELSE [id |-> id, err |-> "ErrScanValue"]

\* func (id *SFID) Scan(src interface{}) error
\* src is [kind, val]: the dynamic type of the interface value, and for a
\* string or a []byte its bytes.
Scan(id, src) ==
    IF src.kind = "nil" THEN [id |-> id, err |-> "nil"]
    ELSE IF src.kind = "string" THEN UnmarshalText(id, src.val)
    ELSE IF src.kind = "bytes" THEN UnmarshalBinary(id, src.val)
    ELSE [id |-> id, err |-> "ErrScanValue"]

----------------------------------------------------------------------------
(* The sequence generator: state. *)

\* The goroutines that call Next on the one generator.
Threads == {"t1", "t2"}

\* Arguments tried for NewSnowflakePro(nodeid, nonce): two nonces in range,
\* the largest among them, and two out of range.
NewArgs ==
    { <<U16(100), U64(123456789)>>,
      <<U16(65535), MaxNonce>>,
      <<U16(100), Inc(MaxNonce)>>,
      <<U16(0), [i \in 1..8 |-> 255]>> }

VARIABLES
    s,        \* the *SnowflakePro: <<>> (nil), or <<[sn, node, nonce, tms, locked]>>
    newRes,   \* NewSnowflakePro's call: <<>>, or <<[nodeid, nonce, err]>>
    clock,    \* the wall clock: what time.Now().UnixMilli() returns now
    pc,       \* pc[t]: where goroutine t is in Next
    loc,      \* loc[t]: Next's locals sfid, now, tms, sn and its result
    began,    \* history: began[t], the number of calls returned when t's call began
    idx,      \* history: idx[t], the rank of t's call in the order of the lock
    log,      \* history: the calls in the order of the lock, each with the
              \* reading it took, the state it found and the pair it
              \* captured; the last call to unlock also with the reading
              \* that ended its wait, the goroutines then stopped at the
              \* lock and the clock at that moment
    ida, idb, \* codec run: two identifiers
    step,     \* codec run: "start", "encoded", "compared" or "parsed";
              \* text run: "text" or "read"; scan run: "scan" or "scanned"
    txa, txb, \* codec run: ida.String() and idb.String()
    cmp,      \* codec run: ida.Compare(idb)
    prs,      \* codec run: the parse of txa, [fn, id, err]
    fid,      \* setter run: the identifier
    fprev,    \* setter run: the identifier before the last setter call
    fop,      \* setter run: the last setter call, <<>> or <<[name, arg, err]>>
    fcount    \* setter run: the number of setter calls made

genVars == <<s, newRes, clock, pc, loc, began, idx, log>>
codecVars == <<ida, idb, step, txa, txb, cmp, prs>>
fieldVars == <<fid, fprev, fop, fcount>>

\* The generator before NewSnowflakePro, with no goroutine started.
GenIdle ==
    /\ s = <<>>
    /\ newRes = <<>>
    /\ clock = 0
    /\ pc = [t \in Threads |-> "off"]
    /\ loc = [t \in Threads |-> [sfid |-> ZeroSFID, now |-> U64(0),
                                  tms |-> U64(0), sn |-> U32(0)]]
    /\ began = [t \in Threads |-> 0]
    /\ idx = [t \in Threads |-> 0]
    /\ log = <<>>

\* No codec run.
CodecIdle ==
    /\ ida = ZeroSFID
    /\ idb = ZeroSFID
    /\ step = "off"
    /\ txa = <<>>
    /\ txb = <<>>
    /\ cmp = 0
    /\ prs = <<>>

\* No setter run.
FieldIdle ==
    /\ fid = ZeroSFID
    /\ fprev = ZeroSFID
    /\ fop = <<>>
    /\ fcount = -1

\* A mask one bit wider than the counter.
SNMaskWide == U32(Pow2(SNBits + 1) - 1)

\* const SNMask = 0xFFFFFF, at the model's width of the counter.
SNMask == U32(Pow2(SNBits) - 1)

\* NewSnowflakePro rejecting the largest nonce too.
NewSnowflakeProGe(nodeid, nonce) ==
    IF CmpBytes(nonce, MaxNonce) >= 0
    THEN [s |-> <<>>, err |-> "ErrBigNonce"]
    ELSE [s |-> <<[sn |-> U32(0), node |-> nodeid, nonce |-> nonce,
                   tms |-> U64(0), locked |-> FALSE]>>,
          err |-> "nil"]

\* func NewSnowflakePro(nodeid uint16, nonce uint64) (*SnowflakePro, error)
NewSnowflakePro(nodeid, nonce) ==
    IF Gt(nonce, MaxNonce) THEN [s |-> <<>>, err |-> "ErrBigNonce"]
    ELSE [s |-> <<[sn |-> U32(0), node |-> nodeid, nonce |-> nonce,
                   tms |-> U64(0), locked |-> FALSE]>>,
          err |-> "nil"]

\* The reading of the call before, used again.
NowCached == IF log = <<>> THEN U64(clock) ELSE log[Len(log)].now

\* uint64(time.Now().UnixMilli())
Now == U64(clock)

\* The test of line 45 with < for <=.
NotAdvancedLt(now, tms) == CmpBytes(now, tms) = -1

\* Next, line 45: now <= s.tms, the clock has not passed the timestamp.
NotAdvanced(now, tms) == Le(now, tms)

\* The increment of line 46 without its mask.
NextSNNoMask(sn) == Inc(sn)

\* Next, line 46: (s.sn + 1) & SNMask
NextSN(sn) == AndW(Inc(sn), SNMask)

\* Line 48 left out: the timestamp stays.
AdvanceTmsNot(tms) == tms

\* Next, line 48: s.tms++
AdvanceTms(tms) == Inc(tms)

\* The largest free-running reading: a single caller is followed over two
\* readings more than concurrent callers are.
ClockMax == IF \E t \in Threads : pc[t] = "off" THEN MaxClock + 2 ELSE MaxClock

\* The readings the wall clock may show: the free-running range, and as far
\* as the generator's own timestamp.
ClockRange ==
    LET tms == IF s = <<>> THEN 0 ELSE ToNat(s[1].tms)
    IN  0..(IF tms > ClockMax THEN tms ELSE ClockMax)

\* Goroutine t is inside Next.
InCall(t) == pc[t] \in {"lock", "until", "unlock", "set"}

\* The number of calls that have returned.
NumReturned == Cardinality({i \in 1..Len(log) : log[i].ret > 0})

\* The number of calls begun.
NumBegun == Len(log) + Cardinality({t \in Threads : pc[t] = "lock"})

\* The calls that use up the counter of one millisecond, and one more.
SeqCalls == Pow2(SNBits) + 1

\* The calls that may be started: MaxCalls by concurrent callers, SeqCalls
\* by a single one.
CallLimit == IF \E t \in Threads : pc[t] = "off" THEN SeqCalls ELSE MaxCalls

NoLocals == [sfid |-> ZeroSFID, now |-> U64(0), tms |-> U64(0), sn |-> U32(0)]

InitGen ==
    /\ s = <<>>
    /\ newRes = <<>>
    /\ clock \in 0..MaxClock
    /\ pc = [t \in Threads |-> "idle"]
    /\ loc = [t \in Threads |-> NoLocals]
    /\ began = [t \in Threads |-> 0]
    /\ idx = [t \in Threads |-> 0]
    /\ log = <<>>
    /\ CodecIdle
    /\ FieldIdle

----------------------------------------------------------------------------
(* The sequence generator: steps. *)

\* A caller constructs the generator.
New(nodeid, nonce) ==
    /\ newRes = <<>>
    /\ LET r == NewSnowflakePro(nodeid, nonce)
       IN  /\ s' = r.s
           /\ newRes' = <<[nodeid |-> nodeid, nonce |-> nonce, err |-> r.err]>>
    /\ UNCHANGED <<clock, pc, loc, began, idx, log, codecVars, fieldVars>>

\* Next, lines 40-42: the call begins; sfid gets the node and the nonce.
Call(t) ==
    /\ s # <<>>
    /\ pc[t] \in {"idle", "ret"}
    /\ NumBegun < CallLimit
    /\ pc' = [pc EXCEPT ![t] = "lock"]
    /\ loc' = [loc EXCEPT ![t] =
                 [NoLocals EXCEPT
                    !.sfid = SetNonce(SetNode(ZeroSFID, s[1].node), s[1].nonce).id]]
    /\ began' = [began EXCEPT ![t] = NumReturned]
    /\ idx' = [idx EXCEPT ![t] = 0]
    /\ UNCHANGED <<s, newRes, clock, log, codecVars, fieldVars>>

\* The goroutines stopped at the Lock of line 43.
AtLock == {u \in Threads : pc[u] = "lock"}

\* Goroutine t was stopped at line 43 when the lock was last released: it
\* has waited for the lock.
WaitedForLock(t) ==
    /\ log # <<>>
    /\ log[Len(log)].cap # <<>>
    /\ t \in log[Len(log)].cap[1].atLock

\* The log once the call of rank i has captured its pair and unlocked: its
\* entry gets the pair and, if goroutines are stopped at the lock, these
\* goroutines and the clock at that moment; what was kept of them, and of
\* the reading that ended its wait, for the call before it is dropped.
Release(i) ==
    [k \in 1..Len(log) |->
       IF k = i
       THEN [log[k] EXCEPT !.cap = <<[tms |-> s[1].tms, sn |-> s[1].sn,
                                      clk |-> IF AtLock = {} THEN <<>>
                                              ELSE <<U64(clock)>>,
                                      atLock |-> AtLock]>>]
       ELSE IF k = i - 1 /\ log[k].cap # <<>>
       THEN [log[k] EXCEPT !.seen = <<>>,
                           !.cap = <<[log[k].cap[1] EXCEPT !.clk = <<>>,
                                                            !.atLock = {}]>>]
       ELSE log[k]]

\* Lines 43-54 with the lock of line 43 not waited for.
LockBarging(t) ==
    /\ pc[t] = "lock"
    /\ LET now == Now
           sn1 == NextSN(s[1].sn)
       IN  /\ IF NotAdvanced(now, s[1].tms)
              THEN IF sn1 = U32(0)
                   THEN /\ s' = <<[s[1] EXCEPT !.locked = TRUE, !.sn = sn1,
                                               !.tms = AdvanceTms(s[1].tms)]>>
                        /\ pc' = [pc EXCEPT ![t] = "until"]
                   ELSE /\ s' = <<[s[1] EXCEPT !.locked = TRUE, !.sn = sn1]>>
                        /\ pc' = [pc EXCEPT ![t] = "unlock"]
              ELSE /\ s' = <<[s[1] EXCEPT !.locked = TRUE, !.sn = U32(0),
                                          !.tms = now]>>
                   /\ pc' = [pc EXCEPT ![t] = "unlock"]
           /\ loc' = [loc EXCEPT ![t].now = now]
           /\ idx' = [idx EXCEPT ![t] = Len(log) + 1]
           /\ log' = Append(log, [now |-> now, fresh |-> Gt(now, s[1].tms),
                                  began |-> began[t], ret |-> 0,
                                  id |-> ZeroSFID,
                                  old |-> [tms |-> s[1].tms, sn |-> s[1].sn],
                                  seen |-> <<>>,
                                  cap |-> <<>>])
    /\ UNCHANGED <<newRes, clock, began, codecVars, fieldVars>>

\* Next, lines 43-54 up to the wait: take the lock, read the clock, move the
\* timestamp and the sequence.
Lock(t) ==
    /\ pc[t] = "lock"
    /\ ~s[1].locked
    /\ LET now == Now
           sn1 == NextSN(s[1].sn)
       IN  /\ IF NotAdvanced(now, s[1].tms)
              THEN IF sn1 = U32(0)
                   THEN /\ s' = <<[s[1] EXCEPT !.locked = TRUE, !.sn = sn1,
                                               !.tms = AdvanceTms(s[1].tms)]>>
                        /\ pc' = [pc EXCEPT ![t] = "until"]
                   ELSE /\ s' = <<[s[1] EXCEPT !.locked = TRUE, !.sn = sn1]>>
                        /\ pc' = [pc EXCEPT ![t] = "unlock"]
              ELSE /\ s' = <<[s[1] EXCEPT !.locked = TRUE, !.sn = U32(0),
                                          !.tms = now]>>
                   /\ pc' = [pc EXCEPT ![t] = "unlock"]
           /\ loc' = [loc EXCEPT ![t].now = now]
           /\ idx' = [idx EXCEPT ![t] = Len(log) + 1]
           /\ log' = Append(log, [now |-> now, fresh |-> Gt(now, s[1].tms),
                                  began |-> began[t], ret |-> 0,
                                  id |-> ZeroSFID,
                                  old |-> [tms |-> s[1].tms, sn |-> s[1].sn],
                                  seen |-> <<>>,
                                  cap |-> <<>>])
    /\ UNCHANGED <<newRes, clock, began, codecVars, fieldVars>>

\* The difference of line 32 taken the other way round.
DurBack == SubW(Conv(Now, 8), Conv(s[1].tms, 8))

\* until: dur := tms - time.Now().UnixMilli(), on int64.
Dur == SubW(Conv(s[1].tms, 8), Conv(Now, 8))

\* The sleep of line 34 with the lock let go.
UntilSleepUnlocked(t) ==
    /\ pc[t] = "until"
    /\ Positive(Dur)
    /\ s' = <<[s[1] EXCEPT !.locked = FALSE]>>
    /\ UNCHANGED <<newRes, clock, pc, loc, began, idx, log, codecVars, fieldVars>>

\* until, lines 33-35: the clock is behind the timestamp; sleep and look again.
UntilSleep(t) ==
    /\ pc[t] = "until"
    /\ Positive(Dur)
    /\ UNCHANGED <<s, newRes, clock, pc, loc, began, idx, log, codecVars, fieldVars>>

\* The wait of lines 32-36 ended whatever the clock reads.
UntilDoneAtOnce(t) ==
    /\ pc[t] = "until"
    /\ pc' = [pc EXCEPT ![t] = "unlock"]
    /\ log' = [log EXCEPT ![idx[t]].seen = <<Now>>]
    /\ UNCHANGED <<s, newRes, clock, loc, began, idx, codecVars, fieldVars>>

\* until, line 33: the clock has reached the timestamp; the wait ends.
UntilDone(t) ==
    /\ pc[t] = "until"
    /\ ~Positive(Dur)
    /\ pc' = [pc EXCEPT ![t] = "unlock"]
    /\ log' = [log EXCEPT ![idx[t]].seen = <<Now>>]
    /\ UNCHANGED <<s, newRes, clock, loc, began, idx, codecVars, fieldVars>>

\* Lines 55-56 without the Unlock of line 57.
UnlockNot(t) ==
    /\ pc[t] = "unlock"
    /\ loc' = [loc EXCEPT ![t].tms = s[1].tms, ![t].sn = s[1].sn]
    /\ log' = Release(idx[t])
    /\ pc' = [pc EXCEPT ![t] = "set"]
    /\ UNCHANGED <<s, newRes, clock, began, idx, codecVars, fieldVars>>

\* Next, lines 55-57: capture the timestamp and the sequence, unlock.
Unlock(t) ==
    /\ pc[t] = "unlock"
    /\ loc' = [loc EXCEPT ![t].tms = s[1].tms, ![t].sn = s[1].sn]
    /\ log' = Release(idx[t])
    /\ s' = <<[s[1] EXCEPT !.locked = FALSE]>>
    /\ pc' = [pc EXCEPT ![t] = "set"]
    /\ UNCHANGED <<newRes, clock, began, idx, codecVars, fieldVars>>

\* Next, lines 58-60: set the time and the sequence (the setters' errors are
\* dropped) and return the identifier.
Return(t) ==
    /\ pc[t] = "set"
    /\ LET sfid == SetSN(SetTime(loc[t].sfid, loc[t].tms).id, loc[t].sn).id
       IN  /\ loc' = [loc EXCEPT ![t].sfid = sfid]
           /\ log' = [log EXCEPT ![idx[t]].id = sfid,
                                 ![idx[t]].ret = NumReturned + 1]
    /\ pc' = [pc EXCEPT ![t] = "ret"]
    /\ UNCHANGED <<s, newRes, clock, began, idx, codecVars, fieldVars>>

\* The wall clock shows another reading: later, or earlier.
Tick ==
    /\ \E c \in ClockRange \ {clock} : clock' = c
    /\ UNCHANGED <<s, newRes, pc, loc, began, idx, log, codecVars, fieldVars>>

NextGen ==
    \/ \E a \in NewArgs : New(a[1], a[2])
    \/ \E t \in Threads : Call(t)
    \/ \E t \in Threads : Lock(t)
    \/ \E t \in Threads : UntilSleep(t)
    \/ \E t \in Threads : UntilDone(t)
    \/ \E t \in Threads : Unlock(t)
    \/ \E t \in Threads : Return(t)
    \/ Tick

vars == <<genVars, codecVars, fieldVars>>

\* Two goroutines call Next concurrently.
Spec == InitGen /\ [][NextGen]_vars

\* One goroutine calls Next, one call at a time.
InitSeq ==
    /\ s = <<>>
    /\ newRes = <<>>
    /\ clock \in 0..(MaxClock + 2)
    /\ pc = [t \in Threads |-> IF t = "t1" THEN "idle" ELSE "off"]
    /\ loc = [t \in Threads |-> NoLocals]
    /\ began = [t \in Threads |-> 0]
    /\ idx = [t \in Threads |-> 0]
    /\ log = <<>>
    /\ CodecIdle
    /\ FieldIdle

SpecSeq == InitSeq /\ [][NextGen]_vars

\* The wall clock shows a later reading: a clock that never goes back.
TickUp ==
    /\ \E c \in ClockRange : c > clock /\ clock' = c
    /\ UNCHANGED <<s, newRes, pc, loc, began, idx, log, codecVars, fieldVars>>

NextLive ==
    \/ \E a \in NewArgs : New(a[1], a[2])
    \/ \E t \in Threads : Call(t)
    \/ \E t \in Threads : Lock(t)
    \/ \E t \in Threads : UntilSleep(t)
    \/ \E t \in Threads : UntilDone(t)
    \/ \E t \in Threads : Unlock(t)
    \/ \E t \in Threads : Return(t)
    \/ TickUp

\* Two goroutines under a clock that never goes back.  A goroutine inside
\* Next keeps running (weak fairness of its steps), and sync.Mutex hands
\* the lock to a waiting goroutine in the end (strong fairness of Lock).
\* Nothing makes a caller call, and nothing makes the clock move.
SpecLive ==
    /\ InitGen
    /\ [][NextLive]_vars
    /\ \A t \in Threads :
          /\ SF_vars(Lock(t))
          /\ WF_vars(UntilDone(t))
          /\ WF_vars(Unlock(t))
          /\ WF_vars(Return(t))

----------------------------------------------------------------------------
(* The sequence generator: what is claimed of it. *)

\* The calls that have returned, by their rank in the order of the lock.
Returned == {i \in 1..Len(log) : log[i].ret > 0}

\* Call i returned before call j began.
Before(i, j) == log[i].ret > 0 /\ log[i].ret <= log[j].began

\* The width of the counter: the sequence numbers of one millisecond.
M == Pow2(SNBits)

\* C1: whatever the interleaving of the callers and whatever the clock
\* shows from one reading to the next, no two calls of Next on the one
\* generator return the same identifier.
C1_NoTwoEqual ==
    \A i \in Returned : \A j \in Returned : i # j => log[i].id # log[j].id

\* Three calls have returned; two of them overlapped, and one read a
\* clock earlier than the call that held the lock before it.
C1_Witness ==
    /\ Cardinality(Returned) >= 3
    /\ \E i \in Returned : \E j \in Returned :
          i < j /\ log[j].began < log[i].ret
    /\ \E i \in 2..Len(log) : CmpBytes(log[i].now, log[i - 1].now) = -1

\* C2: when a call of Next returns before another begins, the identifier
\* of the first compares below the identifier of the second.
C2_ReturnedBeforeBegun ==
    \A i \in Returned : \A j \in Returned :
        Before(i, j) => Compare(log[i].id, log[j].id) < 0

\* A call returned before another began, and the second read an earlier
\* clock than the first.
C2_Witness ==
    \E i \in Returned : \E j \in Returned :
        Before(i, j) /\ CmpBytes(log[j].now, log[i].now) = -1

\* C3: calls made one at a time: when a call has returned and no later
\* call has taken the lock, the identifier's Time, SN, Node and Nonce are
\* the generator's tms, sn, node and nonce.
C3_ResultShowsState ==
    \A t \in Threads :
        (pc[t] = "ret" /\ idx[t] = Len(log)) =>
            /\ Time(loc[t].sfid) = s[1].tms
            /\ SN(loc[t].sfid) = s[1].sn
            /\ Node(loc[t].sfid) = s[1].node
            /\ Nonce(loc[t].sfid) = s[1].nonce

\* The third call of a single caller has returned, with a timestamp that
\* the exhausted counter moved past the clock it had read.
C3_Witness ==
    \E t \in Threads :
        /\ pc[t] = "ret" /\ idx[t] = Len(log) /\ Len(log) >= 3
        /\ Gt(s[1].tms, log[Len(log)].now)
        /\ s[1].nonce = MaxNonce

\* C4 as stated: the first call on a fresh generator returns the node and
\* nonce of the constructor, the clock reading of the call as Time, and
\* SN 0.
C4_FirstCallAsStated ==
    (Len(log) >= 1 /\ log[1].ret > 0) =>
        /\ Node(log[1].id) = newRes[1].nodeid
        /\ Nonce(log[1].id) = newRes[1].nonce
        /\ Time(log[1].id) = log[1].now
        /\ SN(log[1].id) = U32(0)

\* C4, amended: the first call on a fresh generator returns the node and
\* nonce of the constructor and the clock reading of the call as Time; its
\* SN is 0 when that reading is at least 1, and 1 when the reading is 0.
C4_FirstCall ==
    (Len(log) >= 1 /\ log[1].ret > 0) =>
        /\ Node(log[1].id) = newRes[1].nodeid
        /\ Nonce(log[1].id) = newRes[1].nonce
        /\ Time(log[1].id) = log[1].now
        /\ SN(log[1].id) = (IF log[1].now = U64(0) THEN U32(1) ELSE U32(0))

\* The first call has returned, it read a clock of 1 or more, and the
\* generator holds the largest nonce.
C4_Witness ==
    /\ Len(log) >= 1 /\ log[1].ret > 0
    /\ log[1].now # U64(0)
    /\ newRes[1].nonce = MaxNonce

\* Calls k .. k+M-1 all read the clock T, the first of them in a fresh
\* millisecond, and they and call k+M have returned.
FullMillisecond(k) ==
    /\ k + M <= Len(log)
    /\ \A i \in k..(k + M) : log[i].ret > 0
    /\ log[k].fresh
    /\ \A i \in k..(k + M - 1) : log[i].now = log[k].now

\* After a full millisecond T, calls k .. k+M-1 carry T and the sequence
\* numbers 0 .. M-1, and call k+M carries T+1 and the sequence number 0.
CountsThenAdvances(k) ==
    /\ \A i \in 0..(M - 1) :
          /\ Time(log[k + i].id) = log[k].now
          /\ SN(log[k + i].id) = U32(i)
    /\ Time(log[k + M].id) = Inc(log[k].now)
    /\ SN(log[k + M].id) = U32(0)

\* C5 as stated: M consecutive calls that read the same millisecond T,
\* the first in a fresh millisecond, return the sequence numbers 0 .. M-1
\* with T, and the call after them returns T+1 with sequence number 0.
C5_WrapAsStated ==
    \A k \in 1..Len(log) : FullMillisecond(k) => CountsThenAdvances(k)

\* C5, amended: the same, when the call after the M calls reads a clock
\* of at most T+1.
C5_Wrap ==
    \A k \in 1..Len(log) :
        (FullMillisecond(k) /\ Le(log[k + M].now, Inc(log[k].now)))
            => CountsThenAdvances(k)

\* A full millisecond T, and the call after it read T again: it used up
\* the counter and waited.
C5_Witness ==
    \E k \in 1..Len(log) : FullMillisecond(k) /\ log[k + M].now = log[k].now

\* The nonce is 2^40 or more: one of its three high bytes is set.
Over40Bits(nonce) == \E i \in 1..3 : nonce[i] # 0

\* C7: NewSnowflakePro returns ErrBigNonce and no generator exactly when
\* the nonce is above 2^40-1; otherwise it returns a generator with that
\* node and nonce, whose timestamp and sequence are zero.
C7_Constructor ==
    newRes # <<>> =>
        LET r == newRes[1]
        IN  IF Over40Bits(r.nonce)
            THEN r.err = "ErrBigNonce" /\ s = <<>>
            ELSE /\ r.err = "nil" /\ s # <<>>
                 /\ s[1].node = r.nodeid /\ s[1].nonce = r.nonce
                 /\ (Len(log) = 0 => s[1].tms = U64(0) /\ s[1].sn = U32(0))

\* The largest nonce was accepted.
C7_Witness ==
    newRes # <<>> /\ newRes[1].nonce = MaxNonce /\ s # <<>> /\ Len(log) = 0

CaughtUp == s # <<>> => ~Positive(Dur)

----------------------------------------------------------------------------
(* The text form and the ordering: a run of String, Compare and a parser. *)

\* The byte values tried at one position of an identifier: no bit, the lowest
\* bit, the highest bit, every bit.
ByteSamples == {0, 1, 128, 255}

\* The identifiers tried: all bytes 0 or all bytes 255, with one byte replaced.
IdSamples ==
    { [i \in 1..16 |-> fill] : fill \in {0, 255} } \cup
    { [[i \in 1..16 |-> fill] EXCEPT ![p] = b] :
          fill \in {0, 255}, p \in 1..16, b \in ByteSamples }

\* The functions that read the text form.
Parsers == {"Parse", "ParseStrict", "UnmarshalText"}

InitCodec ==
    /\ GenIdle
    /\ FieldIdle
    /\ ida \in IdSamples
    /\ idb \in IdSamples
    /\ step = "start"
    /\ txa = <<>>
    /\ txb = <<>>
    /\ cmp = 0
    /\ prs = <<>>

\* ida.String() and idb.String()
Encode ==
    /\ step = "start"
    /\ txa' = String(ida)
    /\ txb' = String(idb)
    /\ step' = "encoded"
    /\ UNCHANGED <<ida, idb, cmp, prs, genVars, fieldVars>>

\* ida.Compare(idb)
DoCompare ==
    /\ step = "encoded"
    /\ cmp' = Compare(ida, idb)
    /\ step' = "compared"
    /\ UNCHANGED <<ida, idb, txa, txb, prs, genVars, fieldVars>>

\* Parse(ida.String()), ParseStrict(ida.String()), or UnmarshalText of
\* ida.MarshalText() into a variable that holds idb.
DoParse(fn) ==
    /\ step = "compared"
    /\ LET r == IF fn = "Parse" THEN Parse(txa)
                ELSE IF fn = "ParseStrict" THEN ParseStrict(txa)
                ELSE LET m == MarshalText(ida)
                     IN  IF m.err = "nil" THEN UnmarshalText(idb, m.text)
                         ELSE [id |-> idb, err |-> m.err]
       IN  prs' = <<[fn |-> fn, id |-> r.id, err |-> r.err]>>
    /\ step' = "parsed"
    /\ UNCHANGED <<ida, idb, txa, txb, cmp, genVars, fieldVars>>

NextCodec ==
    \/ Encode
    \/ DoCompare
    \/ \E fn \in Parsers : DoParse(fn)

SpecCodec == InitCodec /\ [][NextCodec]_vars

\* C8: text round trip.  Parse and ParseStrict of x.String(), and
\* UnmarshalText of x.MarshalText(), succeed and give x back.
C8_RoundTrip ==
    step = "parsed" => prs[1].err = "nil" /\ prs[1].id = ida

\* An identifier with its top bits set has gone through UnmarshalText into a
\* variable that held another identifier.
C8_Witness ==
    /\ step = "parsed"
    /\ prs[1].fn = "UnmarshalText"
    /\ ida[1] = 255
    /\ idb # ida
    /\ prs[1].id = ida

\* C9: ordering fidelity.  Compare(a, b) has the sign of the byte-wise
\* comparison of a.String() with b.String().
C9_SameOrder ==
    step \in {"compared", "parsed"} => cmp = CmpBytes(txa, txb)

\* Two identifiers that differ in one bit of the last byte have been compared.
C9_Witness ==
    /\ step = "compared"
    /\ cmp = -1
    /\ \A i \in 1..15 : ida[i] = idb[i]
    /\ ida[16] = 0
    /\ idb[16] = 1

----------------------------------------------------------------------------
(* The setters: a run of SetTime, SetNode, SetNonce and SetSN calls on one
   identifier. *)

\* The identifiers a run starts from.
FieldIds == { ZeroSFID, [i \in 1..16 |-> 255] }

\* The arguments tried, for each setter: the least, one with a different
\* value in every byte, the greatest in range, and (where there are any) the
\* least and the greatest out of range.
TimeArgs == { U64(0), <<0, 0, 1, 2, 3, 4, 5, 6>>, maxTime, Inc(maxTime),
              [i \in 1..8 |-> 255] }
NodeArgs == { U16(0), <<1, 2>>, U16(65535) }
NonceArgs == { U64(0), <<0, 0, 0, 1, 2, 3, 4, 5>>, MaxNonce, Inc(MaxNonce),
               [i \in 1..8 |-> 255] }
SNArgs == { U32(0), <<0, 1, 2, 3>>, maxSN, Inc(maxSN), [i \in 1..4 |-> 255] }

InitFields ==
    /\ GenIdle
    /\ CodecIdle
    /\ fid \in FieldIds
    /\ fprev = fid
    /\ fop = <<>>
    /\ fcount = 0

\* err := id.SetTime(ms)
DoSetTime(ms) ==
    /\ fcount >= 0
    /\ fcount < MaxSets
    /\ LET r == SetTime(fid, ms)
       IN  /\ fid' = r.id
           /\ fop' = <<[name |-> "SetTime", arg |-> ms, err |-> r.err]>>
    /\ fprev' = fid
    /\ fcount' = fcount + 1
    /\ UNCHANGED <<genVars, codecVars>>

\* id.SetNode(node)
DoSetNode(node) ==
    /\ fcount >= 0
    /\ fcount < MaxSets
    /\ fid' = SetNode(fid, node)
    /\ fop' = <<[name |-> "SetNode", arg |-> node, err |-> "nil"]>>
    /\ fprev' = fid
    /\ fcount' = fcount + 1
    /\ UNCHANGED <<genVars, codecVars>>

\* err := id.SetNonce(nonce)
DoSetNonce(nonce) ==
    /\ fcount >= 0
    /\ fcount < MaxSets
    /\ LET r == SetNonce(fid, nonce)
       IN  /\ fid' = r.id
           /\ fop' = <<[name |-> "SetNonce", arg |-> nonce, err |-> r.err]>>
    /\ fprev' = fid
    /\ fcount' = fcount + 1
    /\ UNCHANGED <<genVars, codecVars>>

\* err := id.SetSN(sn)
DoSetSN(sn) ==
    /\ fcount >= 0
    /\ fcount < MaxSets
    /\ LET r == SetSN(fid, sn)
       IN  /\ fid' = r.id
           /\ fop' = <<[name |-> "SetSN", arg |-> sn, err |-> r.err]>>
    /\ fprev' = fid
    /\ fcount' = fcount + 1
    /\ UNCHANGED <<genVars, codecVars>>

NextFields ==
    \/ \E ms \in TimeArgs : DoSetTime(ms)
    \/ \E node \in NodeArgs : DoSetNode(node)
    \/ \E nonce \in NonceArgs : DoSetNonce(nonce)
    \/ \E sn \in SNArgs : DoSetSN(sn)

SpecFields == InitFields /\ [][NextFields]_vars

\* The argument of the setter call o is in the range of its field.
InRange(o) ==
    IF o.name = "SetTime" THEN Le(o.arg, maxTime)
    ELSE IF o.name = "SetNonce" THEN Le(o.arg, MaxNonce)
    ELSE IF o.name = "SetSN" THEN Le(o.arg, maxSN)
    ELSE TRUE

\* C10: field isolation.  After a setter call with an argument in range, the
\* getter of the field set returns the argument, and the getters of the
\* other three fields return what they returned before the call.
C10_FieldIsolation ==
    (fop # <<>> /\ InRange(fop[1])) =>
        /\ Time(fid) = IF fop[1].name = "SetTime" THEN fop[1].arg ELSE Time(fprev)
        /\ Node(fid) = IF fop[1].name = "SetNode" THEN fop[1].arg ELSE Node(fprev)
        /\ Nonce(fid) = IF fop[1].name = "SetNonce" THEN fop[1].arg
                                                  ELSE Nonce(fprev)
        /\ SN(fid) = IF fop[1].name = "SetSN" THEN fop[1].arg ELSE SN(fprev)

\* SetNode has changed the node of an identifier whose time and sequence
\* number, set by earlier calls, differ in every byte.
C10_Witness ==
    /\ fop # <<>>
    /\ fop[1].name = "SetNode"
    /\ fop[1].arg = <<1, 2>>
    /\ fid # fprev
    /\ Time(fprev) = <<0, 0, 1, 2, 3, 4, 5, 6>>
    /\ SN(fprev) = <<0, 1, 2, 3>>

\* The argument of the setter call o needs more bits than its field has:
\* more than 48 for the time, 40 for the nonce, 24 for the sequence number.
TooWide(o) ==
    IF o.name = "SetTime" THEN \E i \in 1..2 : o.arg[i] # 0
    ELSE IF o.name = "SetNonce" THEN \E i \in 1..3 : o.arg[i] # 0
    ELSE IF o.name = "SetSN" THEN o.arg[1] # 0
    ELSE FALSE

\* The range error of a setter.
RangeError(name) ==
    IF name = "SetTime" THEN "ErrBigTime"
    ELSE IF name = "SetNonce" THEN "ErrBigNonce"
    ELSE IF name = "SetSN" THEN "ErrBigSN"
    ELSE "none"

\* C11: the range checks of the setters are exact.  SetTime, SetNonce and
\* SetSN return their range error exactly when the argument is above
\* 2^48-1, 2^40-1 and 2^24-1; SetNode never fails.
C11_RangeChecks ==
    fop # <<>> =>
        fop[1].err = (IF TooWide(fop[1]) THEN RangeError(fop[1].name) ELSE "nil")

\* SetTime has accepted 2^48-1, as the second or a later call, on an
\* identifier that was still all zero.
C11_Witness ==
    /\ fop # <<>>
    /\ fop[1].name = "SetTime"
    /\ fop[1].arg = <<0, 0, 255, 255, 255, 255, 255, 255>>
    /\ fop[1].err = "nil"
    /\ Time(fid) = fop[1].arg
    /\ fprev = ZeroSFID
    /\ fcount >= 2

----------------------------------------------------------------------------
(* The parsers on arbitrary input: a text txa is read by Parse, ParseStrict
   or UnmarshalText (into a variable that holds idb). *)

\* The 26-character texts the inputs are made from: the least and the
\* greatest text of an identifier, and texts whose first character is a
\* symbol of value 8, 31 (upper case) and 31 (lower case).
BaseTexts ==
    { [i \in 1..26 |-> 48],
      [i \in 1..26 |-> IF i = 1 THEN 55 ELSE 90],
      [i \in 1..26 |-> IF i = 1 THEN 56 ELSE 48],
      [i \in 1..26 |-> IF i = 1 THEN 90 ELSE 48],
      [i \in 1..26 |-> IF i = 1 THEN 122 ELSE 48] }

\* The characters put into a text: NUL, space, the neighbours of the digits
\* ("/" and ":"), 0, 7, 8, the neighbours of the letters ("@", "[", "`",
\* "{"), A, Z, a, z, the four letters left out of the alphabet in both
\* cases (I, L, O, U, i, l, o, u), DEL and the bytes 128 and 255.
CharSamples ==
    { 0, 32, 47, 48, 55, 56, 58, 64, 65, 90, 91, 96, 97, 122, 123,
      73, 76, 79, 85, 105, 108, 111, 117, 127, 128, 255 }

\* The inputs: a base text with one character replaced, and texts that are
\* not 26 characters long.
TextSamples ==
    { [b EXCEPT ![p] = c] : b \in BaseTexts, p \in 1..26, c \in CharSamples }
    \cup { <<>>, [i \in 1..25 |-> 48], [i \in 1..27 |-> 48] }

InitText ==
    /\ GenIdle
    /\ FieldIdle
    /\ ida = ZeroSFID
    /\ idb = [i \in 1..16 |-> 255]
    /\ step = "text"
    /\ txa \in TextSamples
    /\ txb = <<>>
    /\ cmp = 0
    /\ prs = <<>>

\* Parse(txa), ParseStrict(txa), or UnmarshalText(txa) on a variable that
\* holds idb.
ReadText(fn) ==
    /\ step = "text"
    /\ LET r == IF fn = "Parse" THEN Parse(txa)
                ELSE IF fn = "ParseStrict" THEN ParseStrict(txa)
                ELSE UnmarshalText(idb, txa)
       IN  prs' = <<[fn |-> fn, id |-> r.id, err |-> r.err]>>
    /\ step' = "read"
    /\ UNCHANGED <<ida, idb, txa, txb, cmp, genVars, fieldVars>>

NextText == \E fn \in Parsers : ReadText(fn)

SpecText == InitText /\ [][NextText]_vars

\* The 32 symbols of the alphabet, as byte codes.
Symbols == { Encoding[i] : i \in 1..32 }

\* The symbols, and the lower-case forms of the letters among them.
SymbolsAnyCase == Symbols \cup { c + 32 : c \in { x \in Symbols : x >= 65 } }

\* ParseStrict has read a 26-character text.
StrictRead ==
    step = "read" /\ prs[1].fn = "ParseStrict" /\ Len(txa) = 26

\* C12 as stated: ParseStrict returns the invalid-character error, and no
\* identifier, for every 26-character input with a character that is not
\* one of the 32 upper-case symbols.
C12_StrictAsStated ==
    (StrictRead /\ \E i \in 1..26 : txa[i] \notin Symbols) =>
        prs[1].err = "ErrInvalidCharacters" /\ prs[1].id = ZeroSFID

\* C12, amended: ParseStrict returns the invalid-character error, and no
\* identifier, for a 26-character input exactly when some character is
\* neither one of the 32 symbols nor the lower-case form of a letter among
\* them.
C12_Strict ==
    StrictRead =>
        IF \E i \in 1..26 : txa[i] \notin SymbolsAnyCase
        THEN prs[1].err = "ErrInvalidCharacters" /\ prs[1].id = ZeroSFID
        ELSE prs[1].err # "ErrInvalidCharacters"

\* ParseStrict has refused a text whose only bad character is its last.
C12_Witness ==
    /\ StrictRead
    /\ prs[1].err = "ErrInvalidCharacters"
    /\ txa[26] = 85
    /\ \A i \in 1..25 : txa[i] \in Symbols

\* The first character of the text is a symbol, in either case, whose value
\* is greater than 7.
FirstSymbolOver7 ==
    Len(txa) = 26 /\ txa[1] \in SymbolsAnyCase /\ D(txa, 0) > 7

\* C13 as stated: Parse and ParseStrict return the overflow error for every
\* 26-character input whose first character decodes to more than 7.
C13_OverflowAsStated ==
    (step = "read" /\ prs[1].fn \in {"Parse", "ParseStrict"} /\ FirstSymbolOver7)
        => prs[1].err = "ErrOverflow"

\* C13, amended: for a 26-character input whose first character is a symbol
\* of value greater than 7, Parse and UnmarshalText return the overflow
\* error; ParseStrict returns it when all 26 characters are symbols, and the
\* invalid-character error otherwise.  A parse that succeeds has read a
\* first character no greater than "7".
C13_Overflow ==
    step = "read" =>
        /\ FirstSymbolOver7 =>
              prs[1].err =
                 (IF prs[1].fn = "ParseStrict"
                     /\ \E i \in 1..26 : txa[i] \notin SymbolsAnyCase
                  THEN "ErrInvalidCharacters" ELSE "ErrOverflow")
        /\ prs[1].err = "nil" => txa[1] <= 55

\* Parse has refused a text that begins with "8", the least symbol above 7,
\* and has zeros after it.
C13_Witness ==
    /\ step = "read"
    /\ prs[1].fn = "Parse"
    /\ prs[1].err = "ErrOverflow"
    /\ txa[1] = 56
    /\ \A i \in 2..26 : txa[i] = 48

----------------------------------------------------------------------------
(* Scan: a variable that holds idb scans one source value. *)

\* Byte strings given to Scan, as a string and as a []byte: the binary form
\* and the text of identifiers, a text with a lower-case letter, a text that
\* overflows, and strings of 0, 15, 17 and 25 bytes.
ScanPayloads ==
    { ZeroSFID, [i \in 1..16 |-> 255], [i \in 1..16 |-> 15 + i],
      String(ZeroSFID), String([i \in 1..16 |-> 255]),
      String([i \in 1..16 |-> 15 + i]),
      [i \in 1..26 |-> IF i = 26 THEN 97 ELSE 48],
      [i \in 1..26 |-> IF i = 1 THEN 56 ELSE 48],
      <<>>, [i \in 1..15 |-> 48], [i \in 1..17 |-> 48], [i \in 1..25 |-> 48] }

\* Dynamic types of a source other than string and []byte.
OtherKinds == {"int64", "float64", "bool", "time.Time", "SFID", "*string"}

\* The source values scanned.
ScanSources ==
    { [kind |-> "nil", val |-> <<>>] }
    \cup { [kind |-> k, val |-> v] : k \in {"string", "bytes"}, v \in ScanPayloads }
    \cup { [kind |-> k, val |-> v] : k \in OtherKinds, v \in {<<>>, ZeroSFID} }

InitScan ==
    /\ GenIdle
    /\ FieldIdle
    /\ ida = ZeroSFID
    /\ idb \in { ZeroSFID, [i \in 1..16 |-> 255], [i \in 1..16 |-> 15 + i],
                 [i \in 1..16 |-> 255 - i] }
    /\ step = "scan"
    /\ txa = <<>>
    /\ txb = <<>>
    /\ cmp = 0
    /\ prs = <<>>

\* err := id.Scan(src), on a variable id that holds idb.
DoScan(src) ==
    /\ step = "scan"
    /\ LET r == Scan(idb, src)
       IN  prs' = <<[fn |-> "Scan", src |-> src, id |-> r.id, err |-> r.err]>>
    /\ step' = "scanned"
    /\ UNCHANGED <<ida, idb, txa, txb, cmp, genVars, fieldVars>>

NextScan == \E src \in ScanSources : DoScan(src)

SpecScan == InitScan /\ [][NextScan]_vars

\* What Scan does with a string and with a byte slice: a string is read as
\* text (26 characters, or a size error), a byte slice as binary (16 bytes,
\* taken as they are, or a size error).
ScanDecodes ==
    /\ (prs[1].src.kind = "string" /\ Len(prs[1].src.val) # 26) =>
           prs[1].err = "ErrDataSize"
    /\ (prs[1].src.kind = "string" /\ \E x \in ScanPayloads :
                                         Len(x) = 16 /\ prs[1].src.val = String(x)) =>
           prs[1].err = "nil" /\ String(prs[1].id) = prs[1].src.val
    /\ (prs[1].src.kind = "bytes" /\ Len(prs[1].src.val) # 16) =>
           prs[1].err = "ErrDataSize"
    /\ (prs[1].src.kind = "bytes" /\ Len(prs[1].src.val) = 16) =>
           prs[1].err = "nil" /\ prs[1].id = prs[1].src.val

\* C14 as stated: Scan returns ErrScanValue for every source that is
\* neither a string nor a byte slice; a string is decoded as text and a
\* byte slice as 16-byte binary.
C14_ScanAsStated ==
    step = "scanned" =>
        /\ prs[1].src.kind \notin {"string", "bytes"} => prs[1].err = "ErrScanValue"
        /\ ScanDecodes

\* C14, amended: Scan returns ErrScanValue for every source that is not
\* nil, not a string and not a byte slice; for a nil source it returns no
\* error and leaves the identifier as it was; a string is decoded as text
\* and a byte slice as 16-byte binary.
C14_Scan ==
    step = "scanned" =>
        /\ prs[1].src.kind \notin {"nil", "string", "bytes"} =>
               prs[1].err = "ErrScanValue"
        /\ prs[1].src.kind = "nil" => prs[1].err = "nil" /\ prs[1].id = idb
        /\ ScanDecodes

\* A byte slice of 16 bytes was scanned into a variable that held another
\* identifier.
C14_Witness ==
    /\ step = "scanned"
    /\ prs[1].src.kind = "bytes"
    /\ prs[1].err = "nil"
    /\ prs[1].id = [i \in 1..16 |-> 15 + i]
    /\ idb = [i \in 1..16 |-> 255]

----------------------------------------------------------------------------
(* The sequence generator: the wait for the clock, and the order of the
   calls. *)

\* The call of rank i found the counter of its millisecond used up: its
\* reading had not passed the timestamp, and the sequence was at the mask.
Wrapped(i) == Le(log[i].now, log[i].old.tms) /\ log[i].old.sn = SNMask

\* The timestamp the call of rank i moved the generator to, if it wrapped.
Advanced(i) == Inc(log[i].old.tms)

\* A call that wrapped and has not unlocked holds the lock over the advanced
\* timestamp and the sequence 0, and has not returned; once returned, its
\* identifier carries the advanced timestamp and the sequence 0.
WaitHolds ==
    /\ \A t \in Threads :
          (pc[t] \in {"until", "unlock"} /\ Wrapped(idx[t])) =>
             /\ s[1].locked
             /\ s[1].tms = Advanced(idx[t])
             /\ s[1].sn = U32(0)
             /\ log[idx[t]].ret = 0
    /\ \A i \in Returned :
          Wrapped(i) => /\ Time(log[i].id) = Advanced(i)
                        /\ SN(log[i].id) = U32(0)

\* A call that takes the lock with the counter used up goes into the wait,
\* with the timestamp one later.
LockWraps ==
    \A t \in Threads :
       (/\ pc[t] = "lock" /\ pc'[t] # "lock"
        /\ Le(Now, s[1].tms) /\ s[1].sn = SNMask)
       => /\ pc'[t] = "until"
          /\ s'[1].tms = Inc(s[1].tms)

\* A call leaves the wait only on a step at which the clock reads the
\* generator's timestamp or later, and it leaves it with the lock.
WaitEnds ==
    \A t \in Threads :
       (pc[t] = "until" /\ pc'[t] # "until")
       => /\ Le(s[1].tms, Now)
          /\ pc'[t] = "unlock"
          /\ s'[1].locked
          /\ s'[1].tms = s[1].tms

\* C15: a call of Next whose increment of the sequence wraps to 0 moves the
\* timestamp on by exactly 1, and neither unlocks nor returns before the
\* clock reads that timestamp or later; the identifier it returns carries
\* that timestamp and the sequence 0.
C15_CatchUpWait == []WaitHolds /\ [][LockWraps /\ WaitEnds]_vars

\* A call wrapped while the clock was behind the advanced timestamp, sat in
\* the wait, and has returned its identifier.
C15_Witness ==
    \E i \in Returned :
       /\ Wrapped(i)
       /\ Gt(Advanced(i), log[i].now)
       /\ Time(log[i].id) = Advanced(i)
       /\ SN(log[i].id) = U32(0)

\* Goroutine t is in the wait of line 49.
Waiting(t) == pc[t] = "until"

\* While a call waits, the timestamp and the sequence stay as they are, and
\* another goroutine takes no step that reads or writes them: it may only
\* begin a call (lines 40-42) or finish one that had unlocked before the
\* wait (lines 58-60).
OthersKeptOff ==
    \A t \in Threads :
       Waiting(t) =>
          /\ s' = s
          /\ \A u \in Threads \ {t} :
                pc'[u] # pc[u] =>
                   \/ pc[u] \in {"idle", "ret"} /\ pc'[u] = "lock"
                   \/ pc[u] = "set" /\ pc'[u] = "ret" /\ idx[u] < idx[t]

\* While a call waits it holds the lock, and neither an identifier already
\* returned nor a pair already captured carries the advanced timestamp.
AdvancedUnseen ==
    \A t \in Threads :
       Waiting(t) =>
          /\ s[1].locked
          /\ \A i \in Returned : Time(log[i].id) # s[1].tms
          /\ \A i \in 1..Len(log) :
                log[i].cap # <<>> => log[i].cap[1].tms # s[1].tms

\* No goroutine returns from Next while another one waits.
NoneReturns ==
    \A t \in Threads :
       Waiting(t) => \A u \in Threads \ {t} : ~(pc[u] = "set" /\ pc'[u] = "ret")

\* C16 as stated: while a call of Next is in the wait, no other call reads
\* or changes the timestamp and the sequence, none returns an identifier,
\* and no identifier carrying the advanced timestamp is out.
C16_WaitAsStated == []AdvancedUnseen /\ [][OthersKeptOff /\ NoneReturns]_vars

\* C16, amended: while a call of Next is in the wait, no other call reads or
\* changes the timestamp and the sequence, and no identifier carrying the
\* advanced timestamp is out; the only identifier another call may return
\* meanwhile is that of a call which had unlocked before the wait began.
C16_Wait == []AdvancedUnseen /\ [][OthersKeptOff]_vars

\* A call waits for the clock behind the advanced timestamp; the call
\* before it has unlocked with the earlier timestamp and has yet to
\* return, and a call has returned with the earlier timestamp.
C16_Witness ==
    \E t \in Threads : \E u \in Threads \ {t} :
       /\ Waiting(t)
       /\ Positive(Dur)
       /\ pc[u] = "set"
       /\ idx[u] < idx[t]
       /\ loc[u].tms # s[1].tms
       /\ Returned # {}

\* The calls that have captured their pair (lines 55-56), by their rank.
Captured == {i \in 1..Len(log) : log[i].cap # <<>>}

\* The pair p comes before the pair q: by the timestamp, then by the sequence.
PairLess(p, q) ==
    \/ CmpBytes(p.tms, q.tms) = -1
    \/ p.tms = q.tms /\ CmpBytes(p.sn, q.sn) = -1

\* The pairs captured go up strictly with the order of the lock.
PairsIncrease ==
    \A i \in Captured : \A j \in Captured :
       i < j => PairLess(log[i].cap[1], log[j].cap[1])

\* No step takes the generator's timestamp back.
TmsNeverBack == s # <<>> => CmpBytes(s[1].tms, s'[1].tms) <= 0

\* C17: the (timestamp, sequence) pairs that the calls of Next capture,
\* taken in the order in which the calls held the lock, go up strictly in
\* lexicographic order, whether or not the calls overlap and whatever the
\* clock does; and the generator's timestamp never goes down.
C17_PairsOrdered == []PairsIncrease /\ [][TmsNeverBack]_vars

\* Three calls have captured their pairs: two of them overlapped, one read
\* a clock earlier than the call before it, and one read the same clock as
\* the call before it.
C17_Witness ==
    /\ Cardinality(Captured) >= 3
    /\ \E i \in Captured : \E j \in Captured :
          i < j /\ log[j].began < log[i].ret
    /\ \E i \in Captured : i > 1 /\ CmpBytes(log[i].now, log[i - 1].now) = -1
    /\ \E i \in Captured : i > 1 /\ log[i].now = log[i - 1].now

\* The pair Next leaves in the generator when it finds the pair old and
\* reads the clock now: lines 45-54.
Transition(old, now) ==
    IF Gt(now, old.tms) THEN [tms |-> now, sn |-> U32(0)]
    ELSE IF old.sn = U32(M - 1) THEN [tms |-> Inc(old.tms), sn |-> U32(0)]
    ELSE [tms |-> old.tms, sn |-> Inc(old.sn)]

\* The pair the generator holds.
StatePair == [tms |-> s[1].tms, sn |-> s[1].sn]

\* The pair the call of rank i found is the one the call before it left.
FoundAsLeft(i) ==
    IF i = 1 THEN log[i].old = [tms |-> U64(0), sn |-> U32(0)]
    ELSE log[i].old = Transition(log[i - 1].old, log[i - 1].now)

\* C18: Next moves the state exactly so: a reading of the clock strictly
\* later than the stored timestamp makes the sequence 0 and the timestamp
\* that reading; otherwise, the clock behind the timestamp included, the
\* timestamp is kept and the sequence goes up by one, with no wait, unless
\* the sequence was the greatest one, and then the sequence becomes 0 and
\* the timestamp goes up by one.
C18_Transition ==
    /\ \A t \in Threads :
          pc[t] \in {"until", "unlock"} =>
             /\ StatePair = Transition(log[idx[t]].old, log[idx[t]].now)
             /\ pc[t] = "until" =>
                   /\ ~Gt(log[idx[t]].now, log[idx[t]].old.tms)
                   /\ log[idx[t]].old.sn = U32(M - 1)
    /\ \A i \in 1..Len(log) : FoundAsLeft(i)
    /\ \A i \in Captured :
          /\ log[i].cap[1].tms = Transition(log[i].old, log[i].now).tms
          /\ log[i].cap[1].sn = Transition(log[i].old, log[i].now).sn

\* Three calls have captured their pairs: one read a clock past the
\* timestamp, one read a clock behind the timestamp and went up by one in
\* the sequence, and one found the greatest sequence.
C18_Witness ==
    \E i \in Captured : \E j \in Captured : \E k \in Captured :
       /\ Gt(log[i].now, log[i].old.tms)
       /\ CmpBytes(log[j].now, log[j].old.tms) = -1
       /\ log[j].old.sn # U32(M - 1)
       /\ ~Gt(log[k].now, log[k].old.tms)
       /\ log[k].old.sn = U32(M - 1)

\* Goroutine t takes the lock on this step.
TakesLock(t) == pc[t] = "lock" /\ pc'[t] # "lock"

\* The clock when the lock was last released with goroutines stopped at it.
ReleaseClock == log[Len(log)].cap[1].clk[1]

\* The reading that the call taking the lock on this step compares.
ReadingCompared == log'[Len(log')].now

\* A call that has waited for the lock compares a reading taken while it
\* waited or before: under a clock that never goes back, one no later than
\* the clock at the release that let it in.
ReadBeforeLock ==
    \A t \in Threads :
       (TakesLock(t) /\ WaitedForLock(t)) =>
          CmpBytes(ReadingCompared, ReleaseClock) <= 0

\* The reading a call compares is the clock's at the step on which it has
\* the lock: under a clock that never goes back, one no earlier than the
\* clock at the release that let it in.
ReadUnderLock ==
    \A t \in Threads :
       TakesLock(t) =>
          /\ s'[1].locked
          /\ ReadingCompared = U64(clock)
          /\ loc'[t].now = ReadingCompared
          /\ WaitedForLock(t) => CmpBytes(ReleaseClock, ReadingCompared) <= 0

\* C19 as stated: Next reads the clock before it takes the lock, so that a
\* call which waits for the lock compares a reading taken before it had
\* the lock.
C19_ReadAsStated == [][ReadBeforeLock]_vars

\* C19, amended: Next reads the clock once it has the lock (line 43, then
\* line 44), so that a call which waits for the lock compares a reading
\* taken after it got the lock: under a clock that never goes back, a
\* reading no earlier than the clock at the release that let it in.
C19_ReadUnderLock == [][ReadUnderLock]_vars

\* A call that was stopped at the lock when the call before it unlocked
\* has the lock, and the reading it compares is later than the clock was
\* at that release.
C19_Witness ==
    \E t \in Threads :
       /\ pc[t] \in {"until", "unlock"}
       /\ idx[t] > 1
       /\ t \in log[idx[t] - 1].cap[1].atLock
       /\ Gt(log[idx[t]].now, log[idx[t] - 1].cap[1].clk[1])

\* The reading of the clock that Next took last: the one that ended the
\* wait of the last call to take the lock, or else the one it compared.
LastReading ==
    IF log[Len(log)].seen # <<>> THEN log[Len(log)].seen[1]
    ELSE log[Len(log)].now

\* With the lock free, the stored timestamp is no later than the last
\* reading taken, which is no later than the clock.
StoredNotAhead ==
    (s # <<>> /\ ~s[1].locked) =>
       /\ Le(s[1].tms, Now)
       /\ log # <<>> => /\ Le(s[1].tms, LastReading)
                        /\ Le(LastReading, Now)

\* The stored timestamp is ahead of the clock only during the wait.
AheadOnlyWaiting ==
    (s # <<>> /\ Gt(s[1].tms, Now)) => \E t \in Threads : Waiting(t)

\* C20: under a clock that never goes back, whenever the lock is free the
\* stored timestamp is no later than the last reading of the clock, so
\* that no identifier returned by Next carries a time later than the clock
\* reads when it is returned; the stored timestamp is ahead of the clock
\* only inside the wait.
C20_NotAhead ==
    /\ StoredNotAhead
    /\ AheadOnlyWaiting
    /\ \A i \in Returned : Le(Time(log[i].id), Now)
    /\ \A t \in Threads : pc[t] = "set" => Le(loc[t].tms, Now)

\* A call that advanced the timestamp past its reading has waited and
\* returned; the lock is free and the stored timestamp, the one the
\* identifier carries, is the clock's reading.
C20_Witness ==
    /\ s # <<>>
    /\ ~s[1].locked
    /\ \E i \in Returned :
          /\ Wrapped(i)
          /\ Time(log[i].id) = s[1].tms
          /\ Gt(s[1].tms, log[i].now)
          /\ s[1].tms = Now

----------------------------------------------------------------------------
(* Calls that fail: what they leave in the identifier they were to fill. *)

\* The texts decoded: two encodings, one text with a character outside
\* the alphabet, one whose first character is past "7", one with both, and
\* texts of other lengths.
DestTexts ==
    { String([i \in 1..16 |-> 15 + i]),
      String([i \in 1..16 |-> IF i <= 6 THEN 255 ELSE 0]),
      [i \in 1..26 |-> IF i = 26 THEN 33 ELSE 49],
      [i \in 1..26 |-> IF i = 1 THEN 56 ELSE 49],
      [i \in 1..26 |-> IF i = 1 THEN 90 ELSE IF i = 2 THEN 0 ELSE 49],
      <<>>, [i \in 1..25 |-> 49], [i \in 1..27 |-> 49] }

\* The data copied: 16 bytes, and 0, 1, 15 and 17 bytes.
DestData ==
    { [i \in 1..16 |-> 160 + i], <<>>, <<7>>, [i \in 1..15 |-> 170 + i],
      [i \in 1..17 |-> 180 + i] }

\* The setters given values out of range or in range.
DestTimes == { <<0, 0, 1, 2, 3, 4, 5, 6>>, Inc(maxTime), [i \in 1..8 |-> 255] }
DestNonces == { <<0, 0, 0, 1, 2, 3, 4, 5>>, Inc(MaxNonce), [i \in 1..8 |-> 255] }
DestSNs == { <<0, 1, 2, 3>>, Inc(maxSN), [i \in 1..4 |-> 255] }

InitDest ==
    /\ GenIdle
    /\ CodecIdle
    /\ fid \in { ZeroSFID, [i \in 1..16 |-> 255], [i \in 1..16 |-> 200 + i] }
    /\ fprev = fid
    /\ fop = <<>>
    /\ fcount = 0

\* id, err = Parse(v) or id, err = ParseStrict(v): the result id is a new
\* variable, zero before the call.
DoParseNew(fn, v) ==
    /\ fcount >= 0
    /\ fcount < MaxSets
    /\ LET r == IF fn = "Parse" THEN Parse(v) ELSE ParseStrict(v)
       IN  /\ fid' = r.id
           /\ fop' = <<[name |-> fn, arg |-> v, err |-> r.err]>>
    /\ fprev' = ZeroSFID
    /\ fcount' = fcount + 1
    /\ UNCHANGED <<genVars, codecVars>>

\* err := id.UnmarshalText(v)
DoUnmarshalText(v) ==
    /\ fcount >= 0
    /\ fcount < MaxSets
    /\ LET r == UnmarshalText(fid, v)
       IN  /\ fid' = r.id
           /\ fop' = <<[name |-> "UnmarshalText", arg |-> v, err |-> r.err]>>
    /\ fprev' = fid
    /\ fcount' = fcount + 1
    /\ UNCHANGED <<genVars, codecVars>>

\* err := id.UnmarshalBinary(data)
DoUnmarshalBinary(data) ==
    /\ fcount >= 0
    /\ fcount < MaxSets
    /\ LET r == UnmarshalBinary(fid, data)
       IN  /\ fid' = r.id
           /\ fop' = <<[name |-> "UnmarshalBinary", arg |-> data, err |-> r.err]>>
    /\ fprev' = fid
    /\ fcount' = fcount + 1
    /\ UNCHANGED <<genVars, codecVars>>

NextDest ==
    \/ \E fn \in {"Parse", "ParseStrict"} : \E v \in DestTexts : DoParseNew(fn, v)
    \/ \E v \in DestTexts : DoUnmarshalText(v)
    \/ \E data \in DestData : DoUnmarshalBinary(data)
    \/ \E ms \in DestTimes : DoSetTime(ms)
    \/ \E nonce \in DestNonces : DoSetNonce(nonce)
    \/ \E sn \in DestSNs : DoSetSN(sn)

\* Decoding, copying and setting, one call after another on one variable.
SpecDest == InitDest /\ [][NextDest]_vars

\* The errors of the calls made.
DestErrors ==
    { "ErrDataSize", "ErrInvalidCharacters", "ErrOverflow",
      "ErrBigTime", "ErrBigNonce", "ErrBigSN" }

\* C21: a call that returns an error leaves the identifier it was to fill
\* as it was, all 16 bytes of it: Parse, ParseStrict and UnmarshalText on
\* a text of the wrong size, with a character outside the alphabet or with
\* an overflow, UnmarshalBinary on data of the wrong size, and SetTime,
\* SetNonce and SetSN on a value out of range.
C21_ErrorLeavesId ==
    fop # <<>> =>
       /\ fop[1].err \in DestErrors \cup {"nil"}
       /\ fop[1].err # "nil" => \A i \in 1..16 : fid[i] = fprev[i]

\* After an earlier call, an identifier with bytes that differ from one
\* another was handed to UnmarshalText with a text whose first character
\* is past "7", and holds what it held.
C21_Witness ==
    /\ fop # <<>>
    /\ fop[1].name = "UnmarshalText"
    /\ fop[1].err = "ErrOverflow"
    /\ fcount >= 2
    /\ fid = fprev
    /\ \E i \in 1..16 : \E j \in 1..16 : fid[i] # fid[j]
    /\ Time(fid) # U64(0)

====
